---------------------------- MODULE Spec2Model ----------------------------
(***************************************************************************)
(* Parking helper: an ultrasonic sensor detects a car being parked and     *)
(* fills a mirrored bar of LEDs proportional to the remaining distance.    *)
(*                                                                         *)
(* Two sketches are modelled as state machines:                            *)
(*   - the callback-driven sketch (src/unnamed/part_000, "async"),         *)
(*   - the polling sketch (src/unnamed/part_001, "poll"),                  *)
(* and their distance-to-display mappings, with the one of the basic       *)
(* sketch (src/parking_helper.ino), also as pure functions.                *)
(*                                                                         *)
(* Time is in milliseconds.  A LightChrono is modelled by its elapsed()    *)
(* value, saturated at the largest timeout it is ever compared against.    *)
(***************************************************************************)
EXTENDS Integers, Naturals, Sequences, FiniteSets, TLC

VARIABLES
    variant,            \* which sketch is flashed: "async" or "poll"
    \* ---- callback-driven sketch (part_000) ----
    state,              \* enum states state
    isTransitioning,    \* bool isTransitioning
    leds,               \* CRGB leds[NUM_LEDS]
    strip,              \* the frame last pushed by FastLED.show()
    prevDistance,       \* unsigned int prevDistance
    inactivityTimer,    \* LightChrono inactivityTimer: elapsed()
    triggerInterval,    \* the sonar's trigger interval
    sonar,              \* the AsyncSonar object: pending event, filtered mm
    pc,                 \* position in loop(): "update" or "tick"
    entryRuns,          \* history: entry blocks run since the last assignment to state
    dispatched,         \* history: the event the last sonar.Update dispatched
    showed,             \* history: the last statement of loop() called FastLED.show()
    \* ---- polling sketch (part_001) ----
    stateP,             \* enum states state
    isTransitioningP,   \* bool isTransitioning
    ledsP,              \* CRGB leds[NUM_LEDS]
    stripP,             \* the frame last pushed by FastLED.show()
    level,              \* uint8_t level
    readTimer,          \* LightChrono readTimer: elapsed()
    inactivityTimerP,   \* LightChrono inactivityTimer: elapsed()
    nextFrameTimer,     \* LightChrono nextFrameTimer: elapsed()
    ticked,             \* loop() has run since millis() last advanced
    lastRead,           \* history: last successful reading of the current steady run (0: none)
    steadySpan,         \* history: time spanned by the current steady run of readings
    episodeRead,        \* history: a reading succeeded in the current Parking episode
    \* ---- the display mappings applied to a pair of distances ----
    fn,                 \* which mapping, and whether it has been applied
    argA, argB,         \* the two distances
    resA, resB          \* the two results

asyncVars == <<state, isTransitioning, leds, strip, prevDistance, inactivityTimer,
               triggerInterval, sonar, pc, entryRuns, dispatched, showed>>
pollVars == <<stateP, isTransitioningP, ledsP, stripP, level, readTimer,
              inactivityTimerP, nextFrameTimer, ticked, lastRead, steadySpan,
              episodeRead>>
fnVars == <<fn, argA, argB, resA, resB>>
vars == <<variant, asyncVars, pollVars, fnVars>>

Min(a, b) == IF a < b THEN a ELSE b

\* C integer widths on the target (Arduino Uno, AVR): unsigned int is 16 bit.
U16(x) == x % 65536
U8(x) == x % 256
\* C division truncates toward zero.
CDiv(a, b) == IF (a >= 0) = (b > 0) THEN a \div b ELSE -((-a) \div b)

AWAY_STATE == "AWAY"
PARKING_STATE == "PARKING"
PARKED_STATE == "PARKED"
States == {AWAY_STATE, PARKING_STATE, PARKED_STATE}

\* CRGB: a colour is its three channels packed as 0xRRGGBB.
CRGB(r, g, b) == r * 65536 + g * 256 + b
Black == CRGB(0, 0, 0)

(***************************************************************************)
(* Callback-driven sketch, src/unnamed/part_000                            *)
(***************************************************************************)
NUM_LEDS == 24
MIN_TRIGGER_DISTANCE == 4
MAX_TRIGGER_DISTANCE == 100
INACTIVITY_SECONDS == 5
MIN_DISPLAY_DISTANCE == 10
MAX_DISPLAY_DISTANCE == 80
FAST_TRIGGER_INTERVAL == 35
SLOW_TRIGGER_INTERVAL == 250
\* The trigger interval the AsyncSonar object is constructed with, before the
\* sketch sets one (a value that is neither FAST nor SLOW).
LIB_TRIGGER_INTERVAL == 0
\* FastLED.delay(100) in tickParked's entry block.
PARKED_CLEAR_DELAY == 100
\* delay(100) at the top of setup(): the timers, constructed before setup()
\* runs, have at least this much elapsed when loop() is first called.
SETUP_DELAY == 100

\* DEFINE_GRADIENT_PALETTE(warning_gp): green, yellow at 128, red at 224 and 255.
\* ColorFromPalette is modelled as the linear interpolation between the two
\* bracketing control points; every entry has a channel at 255, none is black.
ColorFromPalette(colorIndex) ==
    IF colorIndex <= 128
    THEN CRGB((255 * colorIndex) \div 128, 255, 0)
    ELSE IF colorIndex <= 224
         THEN CRGB(255, 255 - (255 * (colorIndex - 128)) \div 96, 0)
         ELSE CRGB(255, 0, 0)

\* unsigned int distance = sensor.GetFilteredMM() * .03937;  (truncation)
Inches(mm) == (mm * 3937) \div 100000

\* constrain(amt, low, high)
constrain(amt, low, high) == IF amt < low THEN low ELSE IF amt > high THEN high ELSE amt

\* abs(distance-prevDistance) > 4 with both operands unsigned int: the
\* difference wraps modulo 2^16, the abs() macro ((x)>0?(x):-(x)) returns an
\* unsigned value unchanged.
MovedBeyondHysteresis(distance, prev) == U16(distance - prev) > 4

\* LitLeds without the constrain.
LitLeds_NoConstrain(distance) ==
    U8(U16((NUM_LEDS \div 2)
           - U16((NUM_LEDS \div 2) * U16(distance - MIN_DISPLAY_DISTANCE))
             \div (MAX_DISPLAY_DISTANCE - MIN_DISPLAY_DISTANCE)))

\* uint8_t litLeds = (NUM_LEDS/2) - (NUM_LEDS/2) * (distance-MIN)/(MAX-MIN);
\* computed in unsigned int after the constrain.
LitLeds(distance) ==
    LET d == constrain(distance, MIN_DISPLAY_DISTANCE, MAX_DISPLAY_DISTANCE)
    IN  U8(U16((NUM_LEDS \div 2)
               - U16((NUM_LEDS \div 2) * U16(d - MIN_DISPLAY_DISTANCE))
                 \div (MAX_DISPLAY_DISTANCE - MIN_DISPLAY_DISTANCE)))

\* Variant of Fill that writes only the run growing from pixel 0.
Fill_OneSided(frame, lit) ==
    [p \in 1..NUM_LEDS |->
        IF p - 1 < lit THEN ColorFromPalette(U8((255 * (p - 1)) \div (NUM_LEDS \div 2)))
        ELSE frame[p]]

\* for (i < litLeds) { leds[i] = color; leds[NUM_LEDS-1-i] = color; }
\* Pixels outside the two lit runs keep their value.
\* A frame is the sequence of its pixels: pixel i of the source is frame[i + 1].
Fill(frame, lit) ==
    [p \in 1..NUM_LEDS |->
        LET i == p - 1
        IN  IF i < lit THEN ColorFromPalette(U8((255 * i) \div (NUM_LEDS \div 2)))
            ELSE IF (NUM_LEDS - 1 - i) < lit
                 THEN ColorFromPalette(U8((255 * (NUM_LEDS - 1 - i)) \div (NUM_LEDS \div 2)))
                 ELSE frame[p]]

\* fill_solid(leds, NUM_LEDS, CRGB(0,0,0))
fill_solid(n) == [p \in 1..n |-> Black]

\* LightChrono::hasPassed(timeout): elapsed() >= timeout
hasPassed(elapsed, timeout) == elapsed >= timeout

\* The filtered millimetre values the sensor reports (bounded input set):
\* 3, 4, 5, 48, 50, 60, 100 and 101 inches after conversion.
SonarMM == {77, 102, 128, 1220, 1271, 1525, 2541, 2566}
\* Amounts of time that pass between two steps.
TimeSteps == {500, 2500}
InactivityMs == INACTIVITY_SECONDS * 1000

\* setup() ends with sonar.Start(500): the first ping is still 500 ms away
\* when loop() is first called, so its first sonar.Update has nothing to
\* dispatch.  The initial state is the one that first call leaves.
InitAsync ==
    /\ state = AWAY_STATE
    /\ isTransitioning = TRUE
    /\ leds = fill_solid(NUM_LEDS)
    /\ strip = fill_solid(NUM_LEDS)
    /\ prevDistance = 0
    /\ inactivityTimer = SETUP_DELAY
    /\ triggerInterval = LIB_TRIGGER_INTERVAL
    /\ sonar = [status |-> "idle", mm |-> 0]
    /\ pc = "tick"
    /\ entryRuns = 0
    /\ dispatched = "idle"
    /\ showed = FALSE

\* millis() advances: the inactivity timer's elapsed() grows.
TimePasses(dt) ==
    /\ variant = "async"
    /\ UNCHANGED <<variant, pollVars, fnVars>>
    /\ inactivityTimer' = Min(inactivityTimer + dt, InactivityMs)
    /\ UNCHANGED <<state, isTransitioning, leds, strip, prevDistance,
                   triggerInterval, sonar, pc, entryRuns, dispatched, showed>>

\* The echo interrupt: a ping completes with a filtered reading.
SonarEcho(mm) ==
    /\ variant = "async"
    /\ UNCHANGED <<variant, pollVars, fnVars>>
    /\ sonar.status = "idle"
    /\ sonar' = [sonar EXCEPT !.status = "received", !.mm = mm]
    /\ UNCHANGED <<state, isTransitioning, leds, strip, prevDistance,
                   inactivityTimer, triggerInterval, pc, entryRuns, dispatched, showed>>

\* A ping gets no echo within the timeout distance.
SonarNoEcho ==
    /\ variant = "async"
    /\ UNCHANGED <<variant, pollVars, fnVars>>
    /\ sonar.status = "idle"
    /\ sonar' = [sonar EXCEPT !.status = "timeout"]
    /\ UNCHANGED <<state, isTransitioning, leds, strip, prevDistance,
                   inactivityTimer, triggerInterval, pc, entryRuns, dispatched, showed>>

\* awayPingReceived with both comparisons inclusive.
awayPingReceived_Inclusive ==
    LET distance == Inches(sonar.mm)
    IN  /\ IF distance >= MIN_TRIGGER_DISTANCE /\ distance <= MAX_TRIGGER_DISTANCE
           THEN /\ state' = PARKING_STATE
                /\ isTransitioning' = TRUE
                /\ entryRuns' = 0
           ELSE UNCHANGED <<state, isTransitioning, entryRuns>>
        /\ UNCHANGED <<leds, strip, prevDistance, inactivityTimer>>
        /\ showed' = FALSE

awayPingReceived ==
    LET distance == Inches(sonar.mm)
    IN  /\ IF distance > MIN_TRIGGER_DISTANCE /\ distance < MAX_TRIGGER_DISTANCE
           THEN /\ state' = PARKING_STATE
                /\ isTransitioning' = TRUE
                /\ entryRuns' = 0
           ELSE UNCHANGED <<state, isTransitioning, entryRuns>>
        /\ UNCHANGED <<leds, strip, prevDistance, inactivityTimer>>
        /\ showed' = FALSE

\* parkingPingReceived discarding the two trigger bounds themselves as well.
parkingPingReceived_Exclusive ==
    LET distance == Inches(sonar.mm)
    IN  IF distance <= MIN_TRIGGER_DISTANCE \/ distance >= MAX_TRIGGER_DISTANCE
        THEN /\ UNCHANGED <<state, isTransitioning, entryRuns, leds, strip,
                            prevDistance, inactivityTimer>>
             /\ showed' = FALSE
        ELSE /\ IF MovedBeyondHysteresis(distance, prevDistance)
                THEN /\ prevDistance' = distance
                     /\ inactivityTimer' = 0
                ELSE UNCHANGED <<prevDistance, inactivityTimer>>
             /\ leds' = Fill(leds, LitLeds(distance))
             /\ strip' = leds'
             /\ showed' = TRUE
             /\ UNCHANGED <<state, isTransitioning, entryRuns>>

parkingPingReceived ==
    LET distance == Inches(sonar.mm)
    IN  IF distance < MIN_TRIGGER_DISTANCE \/ distance > MAX_TRIGGER_DISTANCE
        THEN /\ UNCHANGED <<state, isTransitioning, entryRuns, leds, strip,
                            prevDistance, inactivityTimer>>
             /\ showed' = FALSE
        ELSE /\ IF MovedBeyondHysteresis(distance, prevDistance)
                THEN /\ prevDistance' = distance
                     /\ inactivityTimer' = 0
                ELSE UNCHANGED <<prevDistance, inactivityTimer>>
             /\ leds' = Fill(leds, LitLeds(distance))
             /\ strip' = leds'
             /\ showed' = TRUE
             /\ UNCHANGED <<state, isTransitioning, entryRuns>>

\* parkedPingReceived leaving at the trigger maximum itself.
parkedPingReceived_Inclusive ==
    LET distance == Inches(sonar.mm)
    IN  /\ IF distance >= MAX_TRIGGER_DISTANCE
           THEN /\ state' = AWAY_STATE
                /\ isTransitioning' = TRUE
                /\ entryRuns' = 0
           ELSE UNCHANGED <<state, isTransitioning, entryRuns>>
        /\ UNCHANGED <<leds, strip, prevDistance, inactivityTimer>>
        /\ showed' = FALSE

parkedPingReceived ==
    LET distance == Inches(sonar.mm)
    IN  /\ IF distance > MAX_TRIGGER_DISTANCE
           THEN /\ state' = AWAY_STATE
                /\ isTransitioning' = TRUE
                /\ entryRuns' = 0
           ELSE UNCHANGED <<state, isTransitioning, entryRuns>>
        /\ UNCHANGED <<leds, strip, prevDistance, inactivityTimer>>
        /\ showed' = FALSE

PingRecieved ==
    CASE state = PARKING_STATE -> parkingPingReceived
      [] state = PARKED_STATE -> parkedPingReceived
      [] state = AWAY_STATE -> awayPingReceived

\* PingTimeout without the switch on state.
PingTimeout_AnyState ==
    /\ state' = AWAY_STATE
    /\ isTransitioning' = TRUE
    /\ entryRuns' = 0
    /\ UNCHANGED <<leds, strip, prevDistance, inactivityTimer>>
    /\ showed' = FALSE

PingTimeout ==
    /\ IF state = PARKED_STATE
       THEN /\ state' = AWAY_STATE
            /\ isTransitioning' = TRUE
            /\ entryRuns' = 0
       ELSE UNCHANGED <<state, isTransitioning, entryRuns>>
    /\ UNCHANGED <<leds, strip, prevDistance, inactivityTimer>>
    /\ showed' = FALSE

\* loop(), first statement: sonar.Update(&sonar) dispatches the pending event,
\* if any, to its callback, which runs to completion.
Update ==
    /\ variant = "async"
    /\ UNCHANGED <<variant, pollVars, fnVars>>
    /\ pc = "update"
    /\ pc' = "tick"
    /\ \/ /\ sonar.status = "received"
          /\ PingRecieved
       \/ /\ sonar.status = "timeout"
          /\ PingTimeout
       \/ /\ sonar.status = "idle"
          /\ UNCHANGED <<state, isTransitioning, entryRuns, leds, strip,
                         prevDistance, inactivityTimer>>
          /\ showed' = FALSE
    /\ sonar' = [sonar EXCEPT !.status = "idle"]
    /\ dispatched' = sonar.status
    /\ UNCHANGED triggerInterval

\* tickAway whose entry block leaves the trigger interval alone.
tickAway_KeepsInterval ==
    /\ state = AWAY_STATE
    /\ IF isTransitioning
       THEN /\ isTransitioning' = FALSE
            /\ entryRuns' = Min(entryRuns + 1, 2)
            /\ UNCHANGED triggerInterval
       ELSE UNCHANGED <<isTransitioning, triggerInterval, entryRuns>>
    /\ UNCHANGED <<state, leds, strip, prevDistance, inactivityTimer>>
    /\ showed' = FALSE

tickAway ==
    /\ state = AWAY_STATE
    /\ IF isTransitioning
       THEN /\ isTransitioning' = FALSE
            /\ triggerInterval' = SLOW_TRIGGER_INTERVAL
            /\ entryRuns' = Min(entryRuns + 1, 2)
       ELSE UNCHANGED <<isTransitioning, triggerInterval, entryRuns>>
    /\ UNCHANGED <<state, leds, strip, prevDistance, inactivityTimer>>
    /\ showed' = FALSE

\* tickParking comparing against INACTIVITY_SECONDS * 100UL.
tickParking_Early ==
    /\ state = PARKING_STATE
    /\ LET entering == isTransitioning
           elapsed == IF entering THEN 0 ELSE inactivityTimer
           passed == hasPassed(elapsed, INACTIVITY_SECONDS * 100)
       IN  /\ inactivityTimer' = elapsed
           /\ triggerInterval' = IF entering THEN FAST_TRIGGER_INTERVAL
                                 ELSE triggerInterval
           /\ state' = IF passed THEN PARKED_STATE ELSE state
           /\ isTransitioning' = passed
           /\ entryRuns' = IF passed THEN 0
                           ELSE IF entering THEN Min(entryRuns + 1, 2)
                           ELSE entryRuns
    /\ UNCHANGED <<leds, strip, prevDistance>>
    /\ showed' = FALSE

tickParking ==
    /\ state = PARKING_STATE
    /\ LET entering == isTransitioning
           elapsed == IF entering THEN 0 ELSE inactivityTimer
           passed == hasPassed(elapsed, InactivityMs)
       IN  /\ inactivityTimer' = elapsed
           /\ triggerInterval' = IF entering THEN FAST_TRIGGER_INTERVAL
                                 ELSE triggerInterval
           /\ state' = IF passed THEN PARKED_STATE ELSE state
           /\ isTransitioning' = passed
           /\ entryRuns' = IF passed THEN 0
                           ELSE IF entering THEN Min(entryRuns + 1, 2)
                           ELSE entryRuns
    /\ UNCHANGED <<leds, strip, prevDistance>>
    /\ showed' = FALSE

\* The entry block's FastLED.delay(100) blocks for PARKED_CLEAR_DELAY ms.
tickParked ==
    /\ state = PARKED_STATE
    /\ IF isTransitioning
       THEN /\ isTransitioning' = FALSE
            /\ inactivityTimer' = Min(inactivityTimer + PARKED_CLEAR_DELAY, InactivityMs)
            /\ leds' = fill_solid(NUM_LEDS)
            /\ strip' = leds'
            /\ showed' = TRUE
            /\ triggerInterval' = SLOW_TRIGGER_INTERVAL
            /\ entryRuns' = Min(entryRuns + 1, 2)
       ELSE /\ UNCHANGED <<isTransitioning, inactivityTimer, leds, strip,
                           triggerInterval, entryRuns>>
            /\ showed' = FALSE
    /\ UNCHANGED <<state, prevDistance>>

\* loop(), second statement: the switch on state.
Tick ==
    /\ variant = "async"
    /\ UNCHANGED <<variant, pollVars, fnVars>>
    /\ pc = "tick"
    /\ pc' = "update"
    /\ \/ tickAway
       \/ tickParking
       \/ tickParked
    /\ UNCHANGED <<sonar, dispatched>>

NextAsync ==
    \/ \E dt \in TimeSteps : TimePasses(dt)
    \/ \E mm \in SonarMM : SonarEcho(mm)
    \/ SonarNoEcho
    \/ Update
    \/ Tick


(***************************************************************************)
(* Polling sketch, src/unnamed/part_001                                    *)
(***************************************************************************)
NUM_LEDS_P == 10
FRAMES_PER_SECOND == 60
SWEET_SPOT == 31
INACTIVITY_SECONDS_P == 5
MIN_DISTANCE == 2
MAX_DISTANCE == 400
INFREQUENT_READS_PER_SECOND == 2
MAX_READS_PER_SECOND == 10
timeoutMicros == 1000000
\* delay(100) at the top of setup().
SETUP_DELAY_P == 100
\* A ping without echo blocks readDistance() for the whole pulseIn timeout.
TIMEOUT_MS == timeoutMicros \div 1000

InactivityMsP == INACTIVITY_SECONDS_P * 1000
FastReadMs == 1000 \div MAX_READS_PER_SECOND
SlowReadMs == 1000 \div INFREQUENT_READS_PER_SECOND
FrameMs == 1000 \div FRAMES_PER_SECOND

\* DEFINE_GRADIENT_PALETTE(warning_gp) of the polling sketch: green, yellow at
\* 192, red at 255; linear interpolation as above.
ColorFromPaletteP(colorIndex) ==
    IF colorIndex <= 192
    THEN CRGB((255 * colorIndex) \div 192, 255, 0)
    ELSE CRGB(255, 255 - (255 * (colorIndex - 192)) \div 63, 0)

\* long map(long x, long in_min, long in_max, long out_min, long out_max)
map(x, in_min, in_max, out_min, out_max) ==
    CDiv((x - in_min) * (out_max - out_min), in_max - in_min) + out_min

\* if (distance <= SWEET_SPOT) level = 255;
\* else level = map(distance, MIN_DISTANCE, MAX_DISTANCE, 255, 0);   (uint8_t)
Level(distance) ==
    IF distance <= SWEET_SPOT THEN 255
    ELSE U8(map(distance, MIN_DISTANCE, MAX_DISTANCE, 255, 0))

\* Variant of LitLedsP that rounds the lit count to the nearest integer.
LitLedsP_Rounded(lvl) == U8(((NUM_LEDS_P \div 2) * lvl + 127) \div 255)

\* uint8_t litLeds = (NUM_LEDS/2) * level / 255;
LitLedsP(lvl) == U8(((NUM_LEDS_P \div 2) * lvl) \div 255)

\* for (i < litLeds) { leds[i] = color; leds[NUM_LEDS-1-i] = color; }
FillP(frame, lit) ==
    [p \in 1..NUM_LEDS_P |->
        LET i == p - 1
        IN  IF i < lit THEN ColorFromPaletteP(U8((255 * i) \div (NUM_LEDS_P \div 2)))
            ELSE IF (NUM_LEDS_P - 1 - i) < lit
                 THEN ColorFromPaletteP(U8((255 * (NUM_LEDS_P - 1 - i)) \div (NUM_LEDS_P \div 2)))
                 ELSE frame[p]]

\* Distances readDistance() returns, in centimetres (bounded input set);
\* 0 is a ping that timed out.
ReadCm == {0, 20, 22, 200, 400}
\* Amounts of time that pass between two loop iterations: loop() runs again
\* at once, so it never misses a reading that is due (every FastReadMs at most).
TimeStepsP == {50}

\* The time readDistance() blocks: the whole timeout when no echo comes back.
Blocked(distance) == IF distance = 0 THEN TIMEOUT_MS ELSE 0

AbsDiff(a, b) == IF a >= b THEN a - b ELSE b - a

InitPoll ==
    /\ stateP = AWAY_STATE
    /\ isTransitioningP = TRUE
    /\ ledsP = fill_solid(NUM_LEDS_P)
    /\ stripP = fill_solid(NUM_LEDS_P)
    /\ level = 0
    /\ readTimer = SETUP_DELAY_P
    /\ inactivityTimerP = SETUP_DELAY_P
    /\ nextFrameTimer = Min(SETUP_DELAY_P, FrameMs)
    /\ ticked = FALSE
    /\ lastRead = 0
    /\ steadySpan = 0
    /\ episodeRead = FALSE

\* millis() advances between two iterations of loop().
TimePassesP(dt) ==
    /\ variant = "poll"
    /\ UNCHANGED <<variant, asyncVars, fnVars>>
    /\ ticked
    /\ ticked' = FALSE
    /\ readTimer' = Min(readTimer + dt, SlowReadMs)
    /\ inactivityTimerP' = Min(inactivityTimerP + dt, InactivityMsP)
    /\ nextFrameTimer' = Min(nextFrameTimer + dt, FrameMs)
    /\ UNCHANGED <<stateP, isTransitioningP, ledsP, stripP, level, lastRead,
                   steadySpan, episodeRead>>

\* loop() in PARKING_STATE; d is what readDistance() returns if it is called.
tickParkingP(d) ==
    /\ variant = "poll"
    /\ UNCHANGED <<variant, asyncVars, fnVars>>
    /\ stateP = PARKING_STATE
    /\ ticked' = TRUE
    /\ LET entering == isTransitioningP
           inact0 == IF entering THEN 0 ELSE inactivityTimerP
           read0 == IF entering THEN 0 ELSE readTimer
           frame0 == IF entering THEN 0 ELSE nextFrameTimer
           passed == hasPassed(inact0, InactivityMsP)
           reads == hasPassed(read0, FastReadMs)
           distance == IF reads THEN d ELSE 0
           wait == IF reads THEN Blocked(distance) ELSE 0
           success == reads /\ distance > 0
           level1 == IF success THEN Level(distance) ELSE level
           inact1 == IF success THEN 0 ELSE Min(inact0 + wait, InactivityMsP)
           read1 == IF reads THEN Min(wait, SlowReadMs) ELSE read0
           frame1 == Min(frame0 + wait, FrameMs)
           draws == hasPassed(frame1, FrameMs)
       IN  /\ stateP' = IF passed THEN PARKED_STATE ELSE stateP
           /\ isTransitioningP' = passed
           /\ level' = level1
           /\ inactivityTimerP' = inact1
           /\ readTimer' = read1
           /\ nextFrameTimer' = IF draws THEN 0 ELSE frame1
           /\ ledsP' = IF draws THEN FillP(ledsP, LitLedsP(level1)) ELSE ledsP
           /\ stripP' = IF draws THEN ledsP' ELSE stripP
           /\ episodeRead' = (success \/ (~entering /\ episodeRead))
           /\ lastRead' = IF reads THEN distance
                          ELSE IF entering THEN 0 ELSE lastRead
           /\ steadySpan' =
                 LET last0 == IF entering THEN 0 ELSE lastRead
                     span0 == IF entering THEN 0 ELSE steadySpan
                 IN  IF ~reads THEN span0
                     ELSE IF success /\ last0 > 0 /\ AbsDiff(distance, last0) <= 4
                          THEN Min(span0 + inact0, InactivityMsP)
                          ELSE 0

\* loop() in PARKED_STATE.  The entry block's FastLED.delay blocks for FrameMs.
tickParkedP(d) ==
    /\ variant = "poll"
    /\ UNCHANGED <<variant, asyncVars, fnVars>>
    /\ stateP = PARKED_STATE
    /\ ticked' = TRUE
    /\ LET entering == isTransitioningP
           read0 == IF entering THEN 0 ELSE readTimer
           inact0 == IF entering THEN Min(inactivityTimerP + FrameMs, InactivityMsP)
                     ELSE inactivityTimerP
           frame0 == IF entering THEN Min(nextFrameTimer + FrameMs, FrameMs)
                     ELSE nextFrameTimer
           reads == hasPassed(read0, SlowReadMs)
           distance == IF reads THEN d ELSE 0
           wait == IF reads THEN Blocked(distance) ELSE 0
           success == reads /\ distance > 0
       IN  /\ stateP' = IF success THEN AWAY_STATE ELSE stateP
           /\ isTransitioningP' = success
           /\ ledsP' = IF entering THEN fill_solid(NUM_LEDS_P) ELSE ledsP
           /\ stripP' = IF entering THEN ledsP' ELSE stripP
           /\ readTimer' = IF reads THEN Min(wait, SlowReadMs) ELSE read0
           /\ inactivityTimerP' = Min(inact0 + wait, InactivityMsP)
           /\ nextFrameTimer' = Min(frame0 + wait, FrameMs)
           /\ episodeRead' = FALSE
           /\ UNCHANGED <<level, lastRead, steadySpan>>

\* loop() in AWAY_STATE.
tickAwayP(d) ==
    /\ variant = "poll"
    /\ UNCHANGED <<variant, asyncVars, fnVars>>
    /\ stateP = AWAY_STATE
    /\ ticked' = TRUE
    /\ LET reads == hasPassed(readTimer, SlowReadMs)
           distance == IF reads THEN d ELSE 0
           wait == IF reads THEN Blocked(distance) ELSE 0
           success == reads /\ distance > 0
       IN  /\ stateP' = IF success THEN PARKING_STATE ELSE stateP
           /\ isTransitioningP' = success
           /\ readTimer' = IF reads THEN Min(wait, SlowReadMs) ELSE readTimer
           /\ inactivityTimerP' = Min(inactivityTimerP + wait, InactivityMsP)
           /\ nextFrameTimer' = Min(nextFrameTimer + wait, FrameMs)
           /\ episodeRead' = FALSE
           /\ UNCHANGED <<ledsP, stripP, level, lastRead, steadySpan>>

NextPoll ==
    \/ \E dt \in TimeStepsP : TimePassesP(dt)
    \/ \E d \in ReadCm : tickParkingP(d)
    \/ \E d \in ReadCm : tickParkedP(d)
    \/ \E d \in ReadCm : tickAwayP(d)

InitFnIdle ==
    /\ fn = [name |-> "none", applied |-> FALSE]
    /\ argA = 0 /\ argB = 0 /\ resA = 0 /\ resB = 0

Init ==
    /\ variant \in {"async", "poll"}
    /\ InitAsync
    /\ InitPoll
    /\ InitFnIdle

Next == NextAsync \/ NextPoll

Spec == Init /\ [][Next]_vars

\* The callback-driven sketch alone, with the scheduling the hardware gives:
\* loop() is called again and again, and millis() keeps advancing.
InitAsyncOnly == Init /\ variant = "async"
LoopStep == Update \/ Tick
Clock == \E dt \in TimeSteps : TimePasses(dt)
LiveSpec ==
    /\ InitAsyncOnly
    /\ [][NextAsync]_vars
    /\ WF_vars(LoopStep)
    /\ WF_vars(Clock)

(***************************************************************************)
(* Basic sketch, src/parking_helper.ino                                    *)
(***************************************************************************)
NUM_LEDS_B == 10

\* Variant of BasicLitLeds whose output range runs from NUM_LEDS/2 down to 0.
BasicLitLeds_Inverted(distance) ==
    U8(constrain(map(distance, 30, 305, NUM_LEDS_B \div 2, 0), 0, NUM_LEDS_B \div 2))

\* uint8_t litLeds = constrain(map(distance, 30, 305, 0, NUM_LEDS/2), 0, NUM_LEDS/2);
BasicLitLeds(distance) ==
    U8(constrain(map(distance, 30, 305, 0, NUM_LEDS_B \div 2), 0, NUM_LEDS_B \div 2))

(***************************************************************************)
(* The display mappings as pure functions of a pair of distances           *)
(***************************************************************************)
MaxInches == 110
MaxCm == 410

InitMachinesIdle == variant = "none" /\ InitAsync /\ InitPoll

\* Policy (a): part_000's distance -> lit count.
InitLitLeds ==
    /\ InitMachinesIdle
    /\ fn = [name |-> "LitLeds", applied |-> FALSE]
    /\ argA \in 0..MaxInches
    /\ argB \in 0..MaxInches
    /\ resA = 0
    /\ resB = 0

ApplyLitLeds ==
    /\ fn = [name |-> "LitLeds", applied |-> FALSE]
    /\ fn' = [fn EXCEPT !.applied = TRUE]
    /\ resA' = LitLeds(argA)
    /\ resB' = LitLeds(argB)
    /\ UNCHANGED <<variant, asyncVars, pollVars, argA, argB>>

SpecLitLeds == InitLitLeds /\ [][ApplyLitLeds]_vars

\* Policy (b): part_001's distance -> level, for the successful readings
\* (distance > 0) of a pair argA <= argB.
InitLevel ==
    /\ InitMachinesIdle
    /\ fn = [name |-> "Level", applied |-> FALSE]
    /\ argA \in 1..MaxCm
    /\ argB \in argA..MaxCm
    /\ resA = 0
    /\ resB = 0

ApplyLevel ==
    /\ fn = [name |-> "Level", applied |-> FALSE]
    /\ fn' = [fn EXCEPT !.applied = TRUE]
    /\ resA' = Level(argA)
    /\ resB' = Level(argB)
    /\ UNCHANGED <<variant, asyncVars, pollVars, argA, argB>>

SpecLevel == InitLevel /\ [][ApplyLevel]_vars

\* Policy (b): the level stored for a successful reading argA, and the lit
\* count the frame render computes from a level argB.
Levels == 0..255

InitLevelLit ==
    /\ InitMachinesIdle
    /\ fn = [name |-> "LevelLit", applied |-> FALSE]
    /\ argA \in 1..MaxCm
    /\ argB \in Levels
    /\ resA = 0
    /\ resB = 0

ApplyLevelLit ==
    /\ fn = [name |-> "LevelLit", applied |-> FALSE]
    /\ fn' = [fn EXCEPT !.applied = TRUE]
    /\ resA' = Level(argA)
    /\ resB' = LitLedsP(argB)
    /\ UNCHANGED <<variant, asyncVars, pollVars, argA, argB>>

SpecLevelLit == InitLevelLit /\ [][ApplyLevelLit]_vars

\* Basic sketch: the lit count loop() computes for a pair of readings
\* argA <= argB (0 is a ping that timed out).
InitBasic ==
    /\ InitMachinesIdle
    /\ fn = [name |-> "BasicLitLeds", applied |-> FALSE]
    /\ argA \in 0..MaxCm
    /\ argB \in argA..MaxCm
    /\ resA = 0
    /\ resB = 0

ApplyBasic ==
    /\ fn = [name |-> "BasicLitLeds", applied |-> FALSE]
    /\ fn' = [fn EXCEPT !.applied = TRUE]
    /\ resA' = BasicLitLeds(argA)
    /\ resB' = BasicLitLeds(argB)
    /\ UNCHANGED <<variant, asyncVars, pollVars, argA, argB>>

SpecBasic == InitBasic /\ [][ApplyBasic]_vars

(***************************************************************************)
(* Claims                                                                  *)
(***************************************************************************)
AllOff(frame) == \A i \in DOMAIN frame : frame[i] = Black
\* sonar.Update dispatches a received reading / a timeout in this step.
ReadingDispatched == pc = "update" /\ pc' = "tick" /\ sonar.status = "received"
TimeoutDispatched == pc = "update" /\ pc' = "tick" /\ sonar.status = "timeout"
InTriggerBand(d) == d >= 4 /\ d <= 100

\* C1 (as claimed): whenever the state is Parked or Away and the entering
\* flag has been consumed, every pixel of the frame buffer and of the strip
\* is off.
C1_LightsOffOutsideParking ==
    (state \in {PARKED_STATE, AWAY_STATE} /\ ~isTransitioning)
        => (AllOff(leds) /\ AllOff(strip))

\* C2 (as claimed): the entry block of a state runs exactly once between the
\* assignment of that state and the next assignment of state, and never a
\* second time while the state is unchanged.
C2_EntryOncePerTransition ==
    [][(state' # state => entryRuns = 1) /\ entryRuns' <= 1]_vars

\* C3: in Away, the state becomes Parking exactly in the steps that dispatch
\* a reading d with 4 < d < 100; in every other step (reading with d <= 4 or
\* d >= 100, timeout, tick, time passing) the state stays Away.
C3_AwayTrigger ==
    [][state = AWAY_STATE =>
         IF ReadingDispatched /\ Inches(sonar.mm) > 4 /\ Inches(sonar.mm) < 100
         THEN state' = PARKING_STATE
         ELSE state' = AWAY_STATE]_vars

\* A reading of 5 in has just moved the machine from Away to Parking.
C3_Witness ==
    /\ state = PARKING_STATE /\ isTransitioning /\ pc = "tick"
    /\ Inches(sonar.mm) = 5

LegalStep(a, b) ==
    \/ a = b
    \/ a = AWAY_STATE /\ b = PARKING_STATE
    \/ a = PARKING_STATE /\ b = PARKED_STATE
    \/ a = PARKED_STATE /\ b = AWAY_STATE

\* C4: both sketches start in Away, the state is always one of the three, and
\* every change of state is Away->Parking, Parking->Parked or Parked->Away.
C4_OnlyCycle ==
    /\ state = AWAY_STATE /\ stateP = AWAY_STATE
    /\ [](state \in States /\ stateP \in States)
    /\ [][LegalStep(state, state') /\ LegalStep(stateP, stateP')]_vars

\* The polling sketch is back in Away after a Parking episode that took a reading.
C4_Witness ==
    /\ variant = "poll" /\ stateP = AWAY_STATE /\ isTransitioningP
    /\ level > 0 /\ AllOff(ledsP)

\* A reading that parkingPingReceived is about to get and that is in the
\* trigger band and more than 4 away from previousDistance.
NoisyPending ==
    /\ state = PARKING_STATE /\ pc = "update" /\ sonar.status = "received"
    /\ InTriggerBand(Inches(sonar.mm))
    /\ AbsDiff(Inches(sonar.mm), prevDistance) > 4

\* C5: the state becomes Parked only from Parking with the entry block done
\* and INACTIVITY_SECONDS elapsed on the inactivity timer; and if from some
\* point on no reading received in Parking is both in band and more than 4
\* away from previousDistance, every Parking is followed by Parked.
C5_ParkedAfterInactivity ==
    /\ [][(state = PARKING_STATE /\ state' = PARKED_STATE)
            => (~isTransitioning /\ inactivityTimer >= 5000)]_vars
    /\ (<>[]~NoisyPending) => [](state = PARKING_STATE => <>(state = PARKED_STATE))

\* Parked has just been assigned after a Parking episode that took a reading.
C5_Witness ==
    /\ state = PARKED_STATE /\ isTransitioning /\ pc = "update"
    /\ prevDistance > 0 /\ inactivityTimer >= 5000

\* C6 (as claimed): an in-band reading d dispatched in Parking restarts the
\* inactivity timer and stores d in previousDistance when |d - previousDistance|
\* > 4, and leaves both unchanged when |d - previousDistance| <= 4.
C6_HysteresisIsAbsolute ==
    [][(state = PARKING_STATE /\ ReadingDispatched /\ InTriggerBand(Inches(sonar.mm)))
         => IF AbsDiff(Inches(sonar.mm), prevDistance) > 4
            THEN inactivityTimer' = 0 /\ prevDistance' = Inches(sonar.mm)
            ELSE UNCHANGED <<inactivityTimer, prevDistance>>]_vars

\* C7: in Parked, the state becomes Away exactly in the steps that dispatch a
\* reading d > 100 or a timeout; in every other step it stays Parked.
C7_ParkedLeaves ==
    [][state = PARKED_STATE =>
         IF \/ ReadingDispatched /\ Inches(sonar.mm) > 100
            \/ TimeoutDispatched
         THEN state' = AWAY_STATE
         ELSE state' = PARKED_STATE]_vars

\* Parked was entered (display blanked) and then left for Away, with a
\* filtered reading of 101 in.
C7_Witness ==
    /\ state = AWAY_STATE /\ isTransitioning /\ pc = "tick"
    /\ AllOff(leds) /\ prevDistance > 0 /\ Inches(sonar.mm) = 101

\* C8 (as claimed): the polling sketch is never still in Parking once a run of
\* successful readings, each within 4 units of the one before, spans
\* INACTIVITY_SECONDS.
C8_SteadyReadingsPark ==
    stateP = PARKING_STATE => steadySpan < 5000

\* C9: for every in-band d, litLeds = 12 - 12*(clamp(d,10,80) - 10)/70, which
\* is 12 for d <= 10, 0 for d >= 80, and non-increasing in d.
C9_LitLedsMonotone ==
    (fn = [name |-> "LitLeds", applied |-> TRUE] /\ InTriggerBand(argA)) =>
        /\ resA = 12 - (12 * (constrain(argA, 10, 80) - 10)) \div 70
        /\ argA <= 10 => resA = 12
        /\ argA >= 80 => resA = 0
        /\ (InTriggerBand(argB) /\ argA <= argB) => resA >= resB

\* The mapping applied to both ends of the display range.
C9_Witness ==
    /\ fn = [name |-> "LitLeds", applied |-> TRUE] /\ argA = 10 /\ argB = 80
    /\ resA = 12 /\ resB = 0

\* C10 (as claimed): for 31 < d1 <= d2 the level stored for d1 is at least the
\* level stored for d2.
C10_LevelMonotone ==
    (fn = [name |-> "Level", applied |-> TRUE] /\ 31 < argA /\ argA <= argB) => resA >= resB

\* C11: a successful reading d with 0 < d <= 31 stores level 255 and d = 400
\* stores level 0; for every level in 0..255 the lit count 5*level/255 is
\* between 0 and 5, and is 5 only when the level is 255.
C11_SweetSpotAndLitRange ==
    fn = [name |-> "LevelLit", applied |-> TRUE] =>
        /\ (0 < argA /\ argA <= 31) => resA = 255
        /\ argA = 400 => resA = 0
        /\ 0 <= resB /\ resB <= 5
        /\ resB = 5 => argB = 255

\* The far end of the range read, and the lit count taken from a full level.
C11_Witness ==
    /\ fn = [name |-> "LevelLit", applied |-> TRUE]
    /\ argA = 400 /\ resA = 0 /\ argB = 255 /\ resB = 5


\* leds[i] = leds[NUM_LEDS-1-i] for every pixel i of the frame.
Mirror(frame) == \A p \in DOMAIN frame : frame[p] = frame[Len(frame) + 1 - p]
\* parkingPingReceived draws the bar for an in-band reading in this step.
RenderDispatched ==
    state = PARKING_STATE /\ ReadingDispatched /\ InTriggerBand(Inches(sonar.mm))

\* C12: in every reachable state of the callback-driven sketch the frame
\* buffer is mirror-symmetric (leds[i] = leds[NUM_LEDS-1-i]), and every render
\* has litLeds <= NUM_LEDS/2, so every index it writes is within 0..NUM_LEDS-1.
C12_MirrorAndBounded ==
    /\ [](Mirror(leds) /\ Len(leds) = NUM_LEDS)
    /\ [][RenderDispatched =>
            LET litLeds == LitLeds(Inches(sonar.mm))
            IN  /\ litLeds <= NUM_LEDS \div 2
                /\ \A i \in 0..(litLeds - 1) :
                      {i, NUM_LEDS - 1 - i} \subseteq 0..(NUM_LEDS - 1)]_vars

\* A render has lit all NUM_LEDS/2 pairs.
C12_Witness ==
    /\ variant = "async" /\ state = PARKING_STATE
    /\ \A p \in 1..NUM_LEDS : leds[p] # Black
    /\ leds[1] # leds[NUM_LEDS \div 2]


\* C13 (as claimed): right after a render in Parking that computed lit count
\* k, pixels i and NUM_LEDS-1-i are lit for every i < k and every other pixel
\* (k .. NUM_LEDS-1-k) is off, whatever earlier renders of the episode lit.
C13_RenderOverwritesFrame ==
    [][RenderDispatched =>
         LET k == LitLeds(Inches(sonar.mm))
         IN  \A i \in 0..(NUM_LEDS - 1) :
                IF i < k \/ NUM_LEDS - 1 - i < k
                THEN leds'[i + 1] # Black
                ELSE leds'[i + 1] = Black]_vars


\* C14 (as claimed): in the basic sketch, for all readings d1 <= d2 the lit
\* count computed for d1 is at least the lit count computed for d2.
C14_CloserLightsMore ==
    (fn = [name |-> "BasicLitLeds", applied |-> TRUE] /\ argA <= argB) => resA >= resB

\* C14 (amended): in the basic sketch, for all readings d1 <= d2 the lit count
\* computed for d1 is at most the lit count computed for d2.
C14_FartherLightsMore ==
    (fn = [name |-> "BasicLitLeds", applied |-> TRUE] /\ argA <= argB) => resA <= resB

\* Both ends of the mapped range: nothing lit at 30 cm, every pair at 305 cm.
C14_Witness ==
    /\ fn = [name |-> "BasicLitLeds", applied |-> TRUE]
    /\ argA = 30 /\ resA = 0 /\ argB = 305 /\ resB = 5


\* C15: a timeout dispatched while the state is Away or Parking leaves state,
\* the entering flag, previousDistance, the inactivity timer, the trigger
\* interval and the frame buffer unchanged.
C15_TimeoutIgnored ==
    [][(TimeoutDispatched /\ state \in {AWAY_STATE, PARKING_STATE})
         => UNCHANGED <<state, isTransitioning, prevDistance, inactivityTimer,
                        triggerInterval, leds>>]_vars

\* A timeout has just been dispatched in Parking while a bar is on display.
C15_Witness ==
    /\ variant = "async" /\ state = PARKING_STATE /\ pc = "tick"
    /\ dispatched = "timeout" /\ ~AllOff(leds) /\ prevDistance > 0

\* C16: in Parking, a dispatched reading d < 4 or d > 100 leaves state, the
\* entering flag, previousDistance, the inactivity timer and the frame buffer
\* unchanged and pushes no frame; a reading with 4 <= d <= 100 always draws
\* its bar and pushes the frame.
C16_OutOfBandDiscarded ==
    [][(state = PARKING_STATE /\ ReadingDispatched) =>
         LET d == Inches(sonar.mm)
         IN  IF d < 4 \/ d > 100
             THEN /\ UNCHANGED <<state, isTransitioning, prevDistance,
                                 inactivityTimer, leds, strip>>
                  /\ ~showed'
             ELSE /\ showed'
                  /\ strip' = leds'
                  /\ \A i \in 0..(LitLeds(d) - 1) :
                        leds'[i + 1] # Black /\ leds'[NUM_LEDS - i] # Black]_vars

\* A reading of 101 in has just been discarded while a bar is on display.
C16_Witness ==
    /\ variant = "async" /\ state = PARKING_STATE /\ pc = "tick"
    /\ dispatched = "received" /\ Inches(sonar.mm) = 101
    /\ ~showed /\ ~AllOff(leds)


\* C17: whenever the entering flag is false the trigger interval is the one of
\* the current state (250 in Away and Parked, 35 in Parking), and every step
\* that assigns a new state sets the entering flag.
C17_IntervalMatchesState ==
    /\ [](~isTransitioning =>
            triggerInterval = IF state = PARKING_STATE THEN 35 ELSE 250)
    /\ [][state' # state => isTransitioning']_vars

\* Away again with its entry block run, after a Parking episode that took a
\* reading and a Parked state that blanked the display.
C17_Witness ==
    /\ variant = "async" /\ state = AWAY_STATE /\ ~isTransitioning
    /\ triggerInterval = 250 /\ prevDistance > 0 /\ AllOff(leds)


\* C18 (as claimed): in every Parking episode of the polling sketch, the
\* first one and the later ones alike, no pixel of the frame buffer or of the
\* strip is lit until a reading has succeeded in that episode.
C18_NoRenderBeforeFirstReading ==
    (stateP = PARKING_STATE /\ ~episodeRead) => (AllOff(ledsP) /\ AllOff(stripP))

=============================================================================
